---- MODULE Spec2Model ----
(***************************************************************************)
(* A model of ifcclash.py: IfcClasher.clash() followed by export(), as     *)
(* called from __main__.  The model-access library (ifcopenshell), the     *)
(* geometry iterator and the collision library are external; their         *)
(* outcomes (is a file readable, which shapes does the iterator deliver,   *)
(* which contacts does the query return) are nondeterministic inputs.      *)
(***************************************************************************)
EXTENDS Integers, Sequences, FiniteSets, TLC

VARIABLES
    files,     \* a_file / b_file: what lies at the two paths given on the command line
    pc,        \* position in __main__ / clash()
    ab,        \* the loop variable of `for ab in ['a', 'b']`
    model,     \* self.a / self.b
    cm,        \* self.a_cm / self.b_cm: the objects add_object() has received
    meshes,    \* self.a_meshes / self.b_meshes
    created,   \* per side, the geometry ids create_mesh() was called with, in order
    iter,      \* per side, the geometry iterator: its shape stream and position
    consumed,  \* per side, the values iterator.get() has handed to add_collision_object
    valid,     \* per side, valid_file: "unset", "true" or "false"
    results,   \* the value returned by in_collision_other
    ci,        \* index of the next contact of results[1] to process
    clashes,   \* self.clashes, an insertion-ordered dict
    outfile,   \* the file at settings.output
    log,       \* the external calls and stages attempted so far, in order
    abortAt    \* where an exception left the run ("" when none)

vars == <<files, pc, ab, model, cm, meshes, created, iter, consumed, valid,
          results, ci, clashes, outfile, log, abortAt>>

Sides == {"a", "b"}

\* ------------------------------------------------------------------ bounds
\* Longest shape stream one side's iterator delivers.
MaxShapes == 3
\* Longest contact list the query returns.
MaxContacts == 3
\* Most elements below the project in a decomposition hierarchy.
MaxNodes == 3

\* self.tolerance = 0.01, in units of 0.0001 (0.0099 is 99, 0.02 is 200).
Tolerance == 100

\* ----------------------------------------------------- insertion-ordered dict
\* A Python dict is a sequence of <<key, value>> pairs in insertion order.
EmptyDict == <<>>

DictValues(d) == [i \in 1..Len(d) |-> d[i][2]]

DictHas(d, k) == \E i \in 1..Len(d) : d[i][1] = k

DictGet(d, k) == d[CHOOSE i \in 1..Len(d) : d[i][1] = k][2]

\* d.setdefault(k, v): the first value written under a key stays.
DictSetFirstWins(d, k, v) == IF DictHas(d, k) THEN d ELSE Append(d, <<k, v>>)

\* del d[k] before d[k] = v: a key written again moves to the end.
DictSetMoveToEnd(d, k, v) ==
    Append(SelectSeq(d, LAMBDA e : e[1] # k), <<k, v>>)

\* d[k] = v: an existing key keeps its position, a new key goes last.
DictSet(d, k, v) ==
    IF DictHas(d, k)
    THEN [i \in 1..Len(d) |-> IF d[i][1] = k THEN <<k, v>> ELSE d[i]]
    ELSE Append(d, <<k, v>>)

\* ------------------------------------------------------------------ elements
Digit(i) ==
    CASE i = 0 -> "0" [] i = 1 -> "1" [] i = 2 -> "2" [] i = 3 -> "3"
      [] i = 4 -> "4" [] i = 5 -> "5" [] i = 6 -> "6" [] i = 7 -> "7"
      [] i = 8 -> "8" [] OTHER -> "9"

\* A GlobalId is a fixed-length string; here two characters: side and number.
Guid(s, i) == <<s, Digit(i)>>

\* A label no element of either model carries.
UnknownGuid == <<"z", "z">>

\* The products of the model at side s: one IfcSpace and MaxShapes others.
Products(s) ==
    {[guid |-> Guid(s, 0), cls |-> "IfcSpace", name |-> "Room"]}
    \cup {[guid |-> Guid(s, i),
           cls |-> IF i % 2 = 1 THEN "IfcWall" ELSE "IfcBeam",
           name |-> IF i % 2 = 1 THEN "Wall" ELSE "None"] : i \in 1..MaxShapes}

\* ------------------------------------------------- decomposition hierarchy
\* A hierarchy is a sequence of nodes; node 1 is the IfcProject.  Node i > 1 is
\* one of the RelatedObjects of the rel-th IsDecomposedBy relation of its parent.
\* placed: ObjectPlacement with its RelativePlacement and Location exists;
\* axis / ref: <<>> stands for None.
Classes == {"IfcSite", "IfcBuilding", "IfcBuildingStorey"}

Rels == {1, 2}

PlacementKinds == {"both", "axis", "ref", "neither", "missing"}

Placement(kind) ==
    [placed |-> kind # "missing",
     loc |-> <<5, 7, 9>>,
     axis |-> IF kind \in {"both", "axis"} THEN <<0, 1, 0>> ELSE <<>>,
     ref |-> IF kind \in {"both", "ref"} THEN <<0, 0, 1>> ELSE <<>>]

Node(cls, parent, rel, kind) ==
    [cls |-> cls, parent |-> parent, rel |-> rel, pl |-> Placement(kind)]

ProjectNode == Node("IfcProject", 0, 0, "both")

\* The hierarchy of k elements below the project with parents p, classes c and
\* relations r, all placements of one kind.
TreeOf(k, p, c, r, kind) ==
    [i \in 1..(k + 1) |-> IF i = 1 THEN ProjectNode ELSE Node(c[i], p[i], r[i], kind)]

\* project -> site -> building, each the only part of its parent.
SimpleTree(kind) ==
    <<ProjectNode, Node("IfcSite", 1, 1, kind), Node("IfcBuilding", 2, 1, "both")>>

\* ------------------------------------------------------------------ files
Unreadable == [readable |-> FALSE, tree |-> <<>>, products |-> {}]

File(tree, s) == [readable |-> TRUE, tree |-> tree, products |-> Products(s)]

\* The small set of files the pipeline specifications draw from.
FewFiles(s) == {Unreadable, File(SimpleTree("axis"), s), File(SimpleTree("missing"), s)}

\* ------------------------------------------------------ PlacementNormalizer
RECURSIVE Ascending(_)
\* The numbers of S as an ascending sequence.
Ascending(S) ==
    IF S = {} THEN <<>>
    ELSE LET least == CHOOSE x \in S : \A y \in S : x <= y
         IN <<least>> \o Ascending(S \ {least})

\* element.IsDecomposedBy: the relations of e that relate something, each given
\* as its RelatedObjects.
IsDecomposedBy(tree, e) ==
    LET parts(r) == {i \in 1..Len(tree) : tree[i].parent = e /\ tree[i].rel = r}
        used == Ascending({r \in Rels : parts(r) # {}})
    IN [j \in 1..Len(used) |-> Ascending(parts(used[j]))]

\* part.is_a(ifc_class)
IsA(tree, e, ifc_class) == tree[e].cls = ifc_class

RECURSIVE find_decomposed_ifc_class(_, _, _)
RECURSIVE FindInParts(_, _, _)
RECURSIVE FindInRels(_, _, _)
RECURSIVE FindInPartsShallow(_, _, _)

\* The search stops at a match: what lies below a matching part is not visited.
FindInPartsShallow(tree, parts, ifc_class) ==
    IF parts = <<>> THEN <<>>
    ELSE LET part == Head(parts)
         IN (IF IsA(tree, part, ifc_class) THEN <<part>>
             ELSE find_decomposed_ifc_class(tree, part, ifc_class))
            \o FindInPartsShallow(tree, Tail(parts), ifc_class)

\* The inner loop: for part in rel_aggregate.RelatedObjects.
FindInParts(tree, parts, ifc_class) ==
    IF parts = <<>> THEN <<>>
    ELSE LET part == Head(parts)
         IN (IF IsA(tree, part, ifc_class) THEN <<part>> ELSE <<>>)
            \o find_decomposed_ifc_class(tree, part, ifc_class)
            \o FindInParts(tree, Tail(parts), ifc_class)

\* The outer loop: for rel_aggregate in rel_aggregates.
FindInRels(tree, rel_aggregates, ifc_class) ==
    IF rel_aggregates = <<>> THEN <<>>
    ELSE FindInParts(tree, Head(rel_aggregates), ifc_class)
         \o FindInRels(tree, Tail(rel_aggregates), ifc_class)

find_decomposed_ifc_class(tree, element, ifc_class) ==
    LET rel_aggregates == IsDecomposedBy(tree, element)
    IN IF rel_aggregates = <<>> THEN <<>>
       ELSE FindInRels(tree, rel_aggregates, ifc_class)

\* The placement after patch_placement_to_origin; Axis and RefDirection are
\* written only where present.
patch_placement_to_origin(pl) ==
    [pl EXCEPT !.loc = <<0, 0, 0>>,
               !.axis = IF pl.axis # <<>> THEN <<0, 0, 1>> ELSE pl.axis,
               !.ref = IF pl.ref # <<>> THEN <<1, 0, 0>> ELSE pl.ref]

RECURSIVE PatchAll(_, _)
\* for element in elements: patch_placement_to_origin(element).  An element
\* without the placement substructure raises: ok is FALSE and the elements
\* patched before it stay patched.
PatchAll(tree, elements) ==
    IF elements = <<>> THEN [ok |-> TRUE, tree |-> tree]
    ELSE LET e == Head(elements)
         IN IF ~tree[e].pl.placed THEN [ok |-> FALSE, tree |-> tree]
            ELSE PatchAll([tree EXCEPT ![e].pl = patch_placement_to_origin(tree[e].pl)],
                          Tail(elements))

\* patch_ifc on a hierarchy: the sites, then the buildings.  Every file read
\* here holds its IfcProject (node 1), so by_type('IfcProject')[0] succeeds.
patch_ifc(tree) ==
    LET project == 1
        sites == PatchAll(tree, find_decomposed_ifc_class(tree, project, "IfcSite"))
    IN IF ~sites.ok THEN sites
       ELSE PatchAll(sites.tree,
                     find_decomposed_ifc_class(sites.tree, project, "IfcBuilding"))

\* -------------------------------------------- MeshCache, CollisionSceneBuilder
NullShape == [null |-> TRUE, guid |-> <<>>, geomid |-> 0,
              verts |-> <<>>, faces |-> <<>>, m |-> <<>>]

\* The flat vertex and face buffers of geometry g: a triangle, shifted by g.
GeomVerts(g) == <<g, 0, 0, g + 1, 0, 0, g, 1, 0>>

GeomFaces(g) == <<0, 1, 2>>

Shape(guid, g, m) ==
    [null |-> FALSE, guid |-> guid, geomid |-> g,
     verts |-> GeomVerts(g), faces |-> GeomFaces(g), m |-> m]

\* [[v[i], v[i + 1], v[i + 2]] for i in range(0, len(v), 3)]
Group3(v) == [i \in 1..(Len(v) \div 3) |-> <<v[3 * i - 2], v[3 * i - 1], v[3 * i]>>]

\* create_mesh: a new Mesh object.  oid is the object's identity: the side and
\* the number of the create_mesh call on that side.
create_mesh(s, shape, nth) ==
    [oid |-> <<s, nth>>, vertices |-> Group3(shape.verts), faces |-> Group3(shape.faces)]

\* f'mesh-{shape.geometry.id}'
MeshName(g) == <<"mesh-", g>>

\* The array built on lines 103-110 from the 12 entries of m (m[0] is m[1] here).
MakeMat(m) ==
    << <<m[1], m[4], m[7], m[10]>>,
       <<m[2], m[5], m[8], m[11]>>,
       <<m[3], m[6], m[9], m[12]>>,
       <<0, 0, 0, 1>> >>

\* ndarray.transpose(): a new array (a view); the receiver is left as it is.
NpTranspose(mat) == [r \in 1..4 |-> [c \in 1..4 |-> mat[c][r]]]

\* mat = mat.transpose(): the transposed array is the one handed on.
TransformForTransposed(m) == NpTranspose(MakeMat(m))

\* The matrix handed to add_object: mat.transpose() is evaluated and its value
\* dropped.
TransformFor(m) ==
    LET mat == MakeMat(m)
        dropped == NpTranspose(mat)
    IN mat

\* A side's scene state: the scene's objects, the mesh cache, the create_mesh calls.
EmptyScene == [objs |-> <<>>, meshes |-> EmptyDict, created |-> <<>>]

\* add_collision_object without the cache lookup: every shape gets a new mesh,
\* written over the cache entry of its geometry.
add_collision_object_uncached(sc, s, shape) ==
    IF shape.null THEN sc
    ELSE LET mesh == create_mesh(s, shape, Len(sc.created) + 1)
         IN [objs |-> Append(sc.objs, [name |-> shape.guid, mesh |-> mesh,
                                       mat |-> TransformFor(shape.m)]),
             meshes |-> DictSet(sc.meshes, MeshName(shape.geomid), mesh),
             created |-> Append(sc.created, shape.geomid)]

\* add_collision_object(ab, shape) on scene state sc of side s.
add_collision_object(sc, s, shape) ==
    IF shape.null THEN sc
    ELSE LET mesh_name == MeshName(shape.geomid)
             cached == DictHas(sc.meshes, mesh_name)
             mesh == IF cached THEN DictGet(sc.meshes, mesh_name)
                     ELSE create_mesh(s, shape, Len(sc.created) + 1)
         IN [objs |-> Append(sc.objs, [name |-> shape.guid, mesh |-> mesh,
                                       mat |-> TransformFor(shape.m)]),
             meshes |-> IF cached THEN sc.meshes
                        ELSE DictSet(sc.meshes, mesh_name, mesh),
             created |-> IF cached THEN sc.created
                         ELSE Append(sc.created, shape.geomid)]

\* Two transforms the pipeline specifications use.
MatI == <<1, 0, 0, 0, 1, 0, 0, 0, 1, 0, 0, 0>>

MatT == <<0, 1, 0, 2, 0, 0, 0, 0, 1, 3, 4, 5>>

GeomIds == {1, 2}

\* The streams of at most n items for side s: the i-th item is the shape of the
\* i-th product, or None when its tessellation failed.
Streams(s, n) ==
    UNION {{[i \in 1..k |-> IF f[i] = 0 THEN NullShape
                            ELSE Shape(Guid(s, i), f[i], IF i % 2 = 1 THEN MatI ELSE MatT)] :
             f \in [1..k -> {0} \cup GeomIds]} : k \in 1..n}

\* One stream: a null shape, then two shapes sharing one geometry.
OneStream(s) ==
    {<<NullShape, Shape(Guid(s, 1), 1, MatI), Shape(Guid(s, 2), 1, MatT)>>}

\* One-shape streams over every 0/1 transform and one with 12 distinct entries.
MatrixStreams(s) ==
    {<<Shape(Guid(s, 1), 1, [i \in 1..12 |-> f[i]])>> : f \in [1..12 -> {0, 1}]}
    \cup {<<Shape(Guid(s, 1), 1, [i \in 1..12 |-> i + 1])>>}

\* -------------------------------------------------------------- ClashDetector
\* Contact lists of at most n contacts; the i-th contact's normal and position
\* carry i, so that contacts of one list differ.
ContactLists(n, pairs, depths) ==
    UNION {{[i \in 1..k |-> [names |-> f[i][1], depth |-> f[i][2],
                             normal |-> <<i, 0, 1>>, pos |-> <<i, i, 0>>]] :
             f \in [1..k -> pairs \X depths]} : k \in 0..n}

Depths == {99, 100, 200}

\* f'{a_global_id}-{b_global_id}'
ClashKey(a_global_id, b_global_id) == a_global_id \o <<"-">> \o b_global_id

\* by_guid succeeds.
Resolves(mdl, guid) == \E e \in mdl.products : e.guid = guid

by_guid(mdl, guid) == CHOOSE e \in mdl.products : e.guid = guid

\* The dict literal of lines 53-63.
ClashRecord(a, b, contact) ==
    [a_global_id |-> contact.names[1], b_global_id |-> contact.names[2],
     a_ifc_class |-> a.cls, b_ifc_class |-> b.cls,
     a_name |-> a.name, b_name |-> b.name,
     normal |-> contact.normal, position |-> contact.pos,
     penetration_depth |-> contact.depth]

\* `<=` in place of `<`: a contact at exactly the tolerance is dropped.
KeptStrict(contact) == ~(contact.depth <= Tolerance)

\* The contact is kept: `if contact.raw.penetration_depth < self.tolerance: continue`.
Kept(contact) == ~(contact.depth < Tolerance)

\* The body of the loop on lines 47-63 for one contact whose labels resolve.
ProcessContact(d, ma, mb, contact) ==
    IF ~Kept(contact) THEN d
    ELSE DictSet(d, ClashKey(contact.names[1], contact.names[2]),
                 ClashRecord(by_guid(ma, contact.names[1]),
                             by_guid(mb, contact.names[2]), contact))

\* Labels the contacts carry: two products per side and an unknown label.
LabelPairs ==
    {<<Guid("a", 1), Guid("b", 1)>>, <<Guid("a", 2), Guid("b", 1)>>,
     <<Guid("a", 1), UnknownGuid>>, <<UnknownGuid, Guid("b", 1)>>}

ClashPairs ==
    {<<Guid("a", 1), Guid("b", 1)>>, <<Guid("a", 2), Guid("b", 1)>>,
     <<Guid("a", 1), Guid("b", 2)>>, <<Guid("a", 1), UnknownGuid>>}

\* A few short contact lists: none, a kept one, a dropped one, unresolvable
\* ones, and a kept one followed by another contact.
FewContactLists(pairs) ==
    ContactLists(1, pairs, {99, 200})
    \cup {cs \in ContactLists(2, {<<Guid("a", 1), Guid("b", 1)>>, <<Guid("a", 1), UnknownGuid>>},
                               {99, 200}) :
            /\ Len(cs) = 2
            /\ cs[1].names = <<Guid("a", 1), Guid("b", 1)>>
            /\ cs[1].depth = 200}

\* The external inputs of the three pipeline specifications.  "scenes": every
\* shape stream of up to MaxShapes items on both sides, few contact lists.
\* "contacts": one stream per side, every contact list of up to MaxContacts
\* contacts.  "transforms": every transform on side a, few contact lists.
StreamsOf(inputs, s) ==
    CASE inputs = "scenes" -> Streams(s, MaxShapes)
      [] inputs = "transforms" /\ s = "a" -> MatrixStreams(s)
      [] OTHER -> OneStream(s)

ContactListsOf(inputs) ==
    IF inputs = "contacts" THEN ContactLists(MaxContacts, ClashPairs, Depths)
    ELSE FewContactLists(LabelPairs)

\* ------------------------------------------------------------------ the run
NoModel == [open |-> FALSE, tree |-> <<>>, products |-> {}]

NoIter == [stream |-> <<>>, pos |-> 0]

NoResults == [set |-> FALSE, hit |-> FALSE, contacts |-> <<>>]

NoFile == [written |-> FALSE, doc |-> <<>>]

\* IfcClasher.__init__ and the start of __main__, for the two files given.
InitFiles(fa, fb) ==
    /\ files = [s \in Sides |-> IF s = "a" THEN fa ELSE fb]
    /\ pc = "open"
    /\ ab = "a"
    /\ model = [s \in Sides |-> NoModel]
    /\ cm = [s \in Sides |-> <<>>]
    /\ meshes = [s \in Sides |-> EmptyDict]
    /\ created = [s \in Sides |-> <<>>]
    /\ iter = [s \in Sides |-> NoIter]
    /\ consumed = [s \in Sides |-> <<>>]
    /\ valid = [s \in Sides |-> "unset"]
    /\ results = NoResults
    /\ ci = 0
    /\ clashes = EmptyDict
    /\ outfile = NoFile
    /\ log = <<>>
    /\ abortAt = ""

\* An exception propagates out of clash() and __main__: the process ends.
Raise(where) ==
    /\ pc' = "aborted"
    /\ abortAt' = where

\* ifcopenshell.open(...)
Open ==
    /\ pc = "open"
    /\ log' = Append(log, <<"open", ab>>)
    /\ IF files[ab].readable
       THEN /\ model' = [model EXCEPT ![ab] = [open |-> TRUE, tree |-> files[ab].tree,
                                               products |-> files[ab].products]]
            /\ pc' = "patch"
            /\ UNCHANGED abortAt
       ELSE /\ Raise("open")
            /\ UNCHANGED model
    /\ UNCHANGED <<files, ab, cm, meshes, created, iter, consumed, valid,
                   results, ci, clashes, outfile>>

\* self.patch_ifc(ab)
PatchIfc ==
    /\ pc = "patch"
    /\ log' = Append(log, <<"patch", ab>>)
    /\ LET patched == patch_ifc(model[ab].tree)
       IN /\ model' = [model EXCEPT ![ab].tree = patched.tree]
          /\ IF patched.ok
             THEN pc' = "purge" /\ UNCHANGED abortAt
             ELSE Raise("patch")
    /\ UNCHANGED <<files, ab, cm, meshes, created, iter, consumed, valid,
                   results, ci, clashes, outfile>>

\* self.purge_elements(ab)
PurgeElements ==
    /\ pc = "purge"
    /\ log' = Append(log, <<"purge", ab>>)
    /\ model' = [model EXCEPT ![ab].products = {e \in @ : e.cls # "IfcSpace"}]
    /\ pc' = "cm"
    /\ UNCHANGED <<files, ab, cm, meshes, created, iter, consumed, valid,
                   results, ci, clashes, outfile, abortAt>>

\* setattr(self, f'{ab}_cm', collision.CollisionManager())
NewCollisionManager ==
    /\ pc = "cm"
    /\ log' = Append(log, <<"scene", ab>>)
    /\ cm' = [cm EXCEPT ![ab] = <<>>]
    /\ pc' = "init"
    /\ UNCHANGED <<files, ab, model, meshes, created, iter, consumed, valid,
                   results, ci, clashes, outfile, abortAt>>

\* The query follows the first side at once.
SideDoneQueryAtOnce ==
    /\ pc' = "query"
    /\ ab' = "b"

\* add_collision_objects returns: the for loop takes side b, or ends and the
\* query follows.
SideDone ==
    /\ pc' = IF ab = "a" THEN "open" ELSE "query"
    /\ ab' = "b"

\* A failed initialize() raises instead of returning.
IterInitRaises(inputs) ==
    /\ pc = "init"
    /\ log' = Append(log, <<"geom", ab>>)
    /\ \E ok \in BOOLEAN :
        IF ok
        THEN /\ \E st \in StreamsOf(inputs, ab) : iter' = [iter EXCEPT ![ab] = [stream |-> st, pos |-> 1]]
             /\ valid' = [valid EXCEPT ![ab] = "true"]
             /\ pc' = "loop"
             /\ UNCHANGED abortAt
        ELSE /\ valid' = [valid EXCEPT ![ab] = "false"]
             /\ Raise("geom")
             /\ UNCHANGED iter
    /\ UNCHANGED <<files, ab, model, cm, meshes, created, consumed,
                   results, ci, clashes, outfile>>

\* add_collision_objects up to the loop: the iterator is created and
\* initialized; `if not valid_file: return False`.
IterInit(inputs) ==
    /\ pc = "init"
    /\ log' = Append(log, <<"geom", ab>>)
    /\ \E ok \in BOOLEAN :
        IF ok
        THEN /\ \E st \in StreamsOf(inputs, ab) : iter' = [iter EXCEPT ![ab] = [stream |-> st, pos |-> 1]]
             /\ valid' = [valid EXCEPT ![ab] = "true"]
             /\ pc' = "loop"
             /\ UNCHANGED ab
        ELSE /\ valid' = [valid EXCEPT ![ab] = "false"]
             /\ SideDone
             /\ UNCHANGED iter
    /\ UNCHANGED <<files, model, cm, meshes, created, consumed,
                   results, ci, clashes, outfile, abortAt>>

\* The loop stops at the first None shape instead of skipping it.
LoopStepStopsAtNone ==
    /\ pc = "loop"
    /\ LET shape == iter[ab].stream[iter[ab].pos]
           sc == add_collision_object(
                    [objs |-> cm[ab], meshes |-> meshes[ab], created |-> created[ab]],
                    ab, shape)
           more == iter[ab].pos < Len(iter[ab].stream) /\ ~shape.null
       IN /\ consumed' = [consumed EXCEPT ![ab] = Append(@, shape)]
          /\ cm' = [cm EXCEPT ![ab] = sc.objs]
          /\ meshes' = [meshes EXCEPT ![ab] = sc.meshes]
          /\ created' = [created EXCEPT ![ab] = sc.created]
          /\ iter' = [iter EXCEPT ![ab].pos = IF more THEN @ + 1 ELSE @]
          /\ IF more THEN UNCHANGED <<pc, ab>> ELSE SideDone
    /\ UNCHANGED <<files, model, valid, results, ci, clashes, outfile, log, abortAt>>

\* The progress bar of lines 82-85 only prints and is left out.
\* One pass of the while loop: add_collision_object(ab, iterator.get()), then
\* `if not iterator.next(): break`.
LoopStep ==
    /\ pc = "loop"
    /\ LET shape == iter[ab].stream[iter[ab].pos]
           sc == add_collision_object(
                    [objs |-> cm[ab], meshes |-> meshes[ab], created |-> created[ab]],
                    ab, shape)
           more == iter[ab].pos < Len(iter[ab].stream)
       IN /\ consumed' = [consumed EXCEPT ![ab] = Append(@, shape)]
          /\ cm' = [cm EXCEPT ![ab] = sc.objs]
          /\ meshes' = [meshes EXCEPT ![ab] = sc.meshes]
          /\ created' = [created EXCEPT ![ab] = sc.created]
          /\ iter' = [iter EXCEPT ![ab].pos = IF more THEN @ + 1 ELSE @]
          /\ IF more THEN UNCHANGED <<pc, ab>> ELSE SideDone
    /\ UNCHANGED <<files, model, valid, results, ci, clashes, outfile, log, abortAt>>

\* results = self.a_cm.in_collision_other(self.b_cm, return_data=True): the
\* flag is set exactly when the engine found contacts.
Query(inputs) ==
    /\ pc = "query"
    /\ log' = Append(log, <<"query", "ab">>)
    /\ \E cs \in ContactListsOf(inputs) :
         results' = [set |-> TRUE, hit |-> cs # <<>>, contacts |-> cs]
    /\ pc' = "results"
    /\ UNCHANGED <<files, ab, model, cm, meshes, created, iter, consumed, valid,
                   ci, clashes, outfile, abortAt>>

\* `if not results[0]: return`, else the for loop over results[1] starts.
CheckResults ==
    /\ pc = "results"
    /\ pc' = IF ~results.hit \/ results.contacts = <<>> THEN "export" ELSE "contacts"
    /\ ci' = 1
    /\ UNCHANGED <<files, ab, model, cm, meshes, created, iter, consumed, valid,
                   results, clashes, outfile, log, abortAt>>

\* The depth is compared before the labels are resolved: a contact below
\* tolerance is skipped whether or not its labels resolve.
ContactStepDepthFirst ==
    /\ pc = "contacts"
    /\ LET contact == results.contacts[ci]
           unknown == \/ ~Resolves(model["a"], contact.names[1])
                      \/ ~Resolves(model["b"], contact.names[2])
       IN IF Kept(contact) /\ unknown
          THEN Raise("by_guid a") /\ UNCHANGED <<ci, clashes>>
          ELSE /\ clashes' = IF Kept(contact)
                             THEN ProcessContact(clashes, model["a"], model["b"], contact)
                             ELSE clashes
               /\ ci' = ci + 1
               /\ pc' = IF ci < Len(results.contacts) THEN "contacts" ELSE "export"
               /\ UNCHANGED abortAt
    /\ UNCHANGED <<files, ab, model, cm, meshes, created, iter, consumed, valid,
                   results, outfile, log>>

\* One pass of `for contact in results[1]`: both labels are resolved first
\* (by_guid raises for an unknown label), then the depth is compared.
ContactStep ==
    /\ pc = "contacts"
    /\ LET contact == results.contacts[ci]
       IN IF ~Resolves(model["a"], contact.names[1])
          THEN Raise("by_guid a") /\ UNCHANGED <<ci, clashes>>
          ELSE IF ~Resolves(model["b"], contact.names[2])
          THEN Raise("by_guid b") /\ UNCHANGED <<ci, clashes>>
          ELSE /\ clashes' = ProcessContact(clashes, model["a"], model["b"], contact)
               /\ ci' = ci + 1
               /\ pc' = IF ci < Len(results.contacts) THEN "contacts" ELSE "export"
               /\ UNCHANGED abortAt
    /\ UNCHANGED <<files, ab, model, cm, meshes, created, iter, consumed, valid,
                   results, outfile, log>>

\* ifc_clasher.export(): json.dump(list(self.clashes.values()), ...): the
\* document is the array of the records in the dict's order.
Export ==
    /\ pc = "export"
    /\ log' = Append(log, <<"export", "ab">>)
    /\ outfile' = [written |-> TRUE, doc |-> DictValues(clashes)]
    /\ pc' = "done"
    /\ UNCHANGED <<files, ab, model, cm, meshes, created, iter, consumed, valid,
                   results, ci, clashes, abortAt>>

\* The run, its external inputs drawn from the sets the name `inputs` stands for.
NextWith(inputs) ==
    \/ Open
    \/ PatchIfc
    \/ PurgeElements
    \/ NewCollisionManager
    \/ IterInit(inputs)
    \/ LoopStep
    \/ Query(inputs)
    \/ CheckResults
    \/ ContactStep
    \/ Export

\* The pipeline with every shape stream of up to MaxShapes items on both sides.
Init == \E fa \in FewFiles("a"), fb \in FewFiles("b") : InitFiles(fa, fb)

Next == NextWith("scenes")

Spec == Init /\ [][Next]_vars

\* The pipeline with every contact list of up to MaxContacts contacts.
NextClash == NextWith("contacts")

SpecClash == Init /\ [][NextClash]_vars

\* The pipeline with every transform on side a.
NextMatrix == NextWith("transforms")

SpecMatrix == Init /\ [][NextMatrix]_vars

\* Opening and normalizing side a, over every hierarchy of up to MaxNodes elements.
\* Every hierarchy: the parent of an element is the project or an earlier element.
InitPatch ==
    \E k \in 0..MaxNodes :
        \E p \in [2..(k + 1) -> 1..k], c \in [2..(k + 1) -> Classes],
           r \in [2..(k + 1) -> Rels], kind \in PlacementKinds :
            /\ \A i \in 2..(k + 1) : p[i] < i
            /\ InitFiles(File(TreeOf(k, p, c, r, kind), "a"), File(SimpleTree("axis"), "b"))

NextPatch == Open \/ PatchIfc

SpecPatch == InitPatch /\ [][NextPatch]_vars

\* ------------------------------------------------------------ the claims
Passes(c) == c.depth >= Tolerance

\* The records of the report for the pair p = <<A-label, B-label>>.
RecordsOf(p) ==
    {i \in 1..Len(clashes) :
        clashes[i][2].a_global_id = p[1] /\ clashes[i][2].b_global_id = p[2]}

ClashReturned == pc \in {"export", "done"}

\* C1: once clash() has returned normally, the report holds a record for a pair
\* exactly when some returned contact of that pair has depth >= 0.01; every
\* record's depth is >= 0.01; and the report is empty when the query reports
\* no interference.
C1_ToleranceBoundary ==
    ClashReturned =>
        /\ \A p \in ClashPairs :
             (RecordsOf(p) # {}) <=>
                \E i \in 1..Len(results.contacts) :
                    results.contacts[i].names = p /\ Passes(results.contacts[i])
        /\ \A i \in 1..Len(clashes) : clashes[i][2].penetration_depth >= Tolerance
        /\ (~results.hit => clashes = EmptyDict)

\* A finished run where a contact at exactly the tolerance made a record and a
\* contact just below it, of another pair, made none.
C1_Witness ==
    /\ pc = "done"
    /\ \E i, j \in 1..Len(results.contacts) :
         /\ results.contacts[i].depth = Tolerance
         /\ RecordsOf(results.contacts[i].names) # {}
         /\ results.contacts[j].depth = Tolerance - 1
         /\ results.contacts[j].names # results.contacts[i].names
         /\ RecordsOf(results.contacts[j].names) = {}

\* The contacts the loop has gone through so far.
Processed == 1..(ci - 1)

\* The last processed contact of pair p that passes the filter (0 when none).
LastPassing(p) ==
    LET js == {j \in Processed : results.contacts[j].names = p /\ Passes(results.contacts[j])}
    IN IF js = {} THEN 0 ELSE CHOOSE j \in js : \A k \in js : k <= j

\* C2: at every point of contact processing the report holds at most one record
\* per ordered pair, a pair that had a passing contact keeps a record, and the
\* record carries the normal, position and depth of the last processed passing
\* contact of the pair (so a later contact below tolerance changes nothing).
C2_OneRecordPerPair ==
    results.set =>
        /\ \A i, j \in 1..Len(clashes) :
             (/\ clashes[i][2].a_global_id = clashes[j][2].a_global_id
              /\ clashes[i][2].b_global_id = clashes[j][2].b_global_id) => i = j
        /\ \A p \in ClashPairs : LastPassing(p) # 0 => RecordsOf(p) # {}
        /\ \A i \in 1..Len(clashes) :
             LET r == clashes[i][2]
                 last == LastPassing(<<r.a_global_id, r.b_global_id>>)
             IN /\ last # 0
                /\ r.normal = results.contacts[last].normal
                /\ r.position = results.contacts[last].pos
                /\ r.penetration_depth = results.contacts[last].depth

\* Three contacts of one pair have been processed: two passing, then one below
\* tolerance; the report holds the one record of the second.
C2_Witness ==
    /\ pc = "export"
    /\ Len(results.contacts) = 3
    /\ results.contacts[1].names = results.contacts[2].names
    /\ results.contacts[2].names = results.contacts[3].names
    /\ Passes(results.contacts[1])
    /\ Passes(results.contacts[2])
    /\ ~Passes(results.contacts[3])
    /\ results.contacts[1].depth # results.contacts[2].depth
    /\ Len(clashes) = 1
    /\ clashes[1][2].normal = results.contacts[2].normal

RECURSIVE FirstKeptOrder(_, _)
\* The pairs of the passing contacts of cs, each once, in the order of their
\* first passing contact; seen is the set of pairs already listed.
FirstKeptOrder(cs, seen) ==
    IF cs = <<>> THEN <<>>
    ELSE IF Passes(Head(cs)) /\ Head(cs).names \notin seen
         THEN <<Head(cs).names>> \o FirstKeptOrder(Tail(cs), seen \cup {Head(cs).names})
         ELSE FirstKeptOrder(Tail(cs), seen)

\* C8: export() writes a document (also for an empty report: an empty array)
\* holding exactly the report's records, none omitted and none filtered again,
\* ordered by the first insertion of each record's key.
C8_ExportOrder ==
    pc = "done" =>
        LET order == FirstKeptOrder(results.contacts, {})
            doc == outfile.doc
        IN /\ outfile.written
           /\ Len(doc) = Len(order)
           /\ Len(doc) = Len(clashes)
           /\ \A i \in 1..Len(doc) :
                /\ doc[i].a_global_id = order[i][1]
                /\ doc[i].b_global_id = order[i][2]
                /\ \E j \in 1..Len(clashes) : clashes[j][2] = doc[i]
           /\ (clashes = EmptyDict => doc = <<>>)

\* A finished run with contacts of pair 1, pair 2, pair 1, all passing: two
\* records are written, pair 1 first, with the third contact's data.
C8_Witness ==
    /\ pc = "done"
    /\ Len(results.contacts) = 3
    /\ results.contacts[1].names = results.contacts[3].names
    /\ results.contacts[1].names # results.contacts[2].names
    /\ \A i \in 1..3 : Passes(results.contacts[i])
    /\ Len(outfile.doc) = 2
    /\ outfile.doc[1].a_global_id = results.contacts[1].names[1]
    /\ outfile.doc[1].b_global_id = results.contacts[1].names[2]
    /\ outfile.doc[1].normal = results.contacts[3].normal

\* The shapes of a sequence of stream items that are not None.
NonNull(items) == SelectSeq(items, LAMBDA x : ~x.null)

\* add_collision_objects has returned for side s.
SideBuilt(s) ==
    IF s = "a" THEN ab = "b"
    ELSE \/ pc \in {"query", "results", "contacts", "export", "done"}
         \/ pc = "aborted" /\ abortAt \in {"by_guid a", "by_guid b"}

\* C3: on each side create_mesh is called exactly once per distinct geometry id
\* seen, whatever the number and order of the shapes sharing it; every object of
\* a geometry id carries that id's cached Mesh object; and a cache entry, once
\* written, is never replaced.
C3_OneMeshPerGeometry ==
    /\ [](\A s \in Sides :
            LET shapes == NonNull(consumed[s])
            IN /\ \A i, j \in 1..Len(created[s]) : created[s][i] = created[s][j] => i = j
               /\ {created[s][i] : i \in 1..Len(created[s])}
                    = {shapes[i].geomid : i \in 1..Len(shapes)}
               /\ Len(cm[s]) = Len(shapes)
               /\ \A i \in 1..Len(shapes) :
                    /\ DictHas(meshes[s], MeshName(shapes[i].geomid))
                    /\ cm[s][i].mesh = DictGet(meshes[s], MeshName(shapes[i].geomid))
               /\ \A i, j \in 1..Len(shapes) :
                    (shapes[i].geomid = shapes[j].geomid)
                        <=> (cm[s][i].mesh.oid = cm[s][j].mesh.oid))
    /\ [][\A s \in Sides : \A k \in 1..Len(meshes[s]) :
            Len(meshes'[s]) >= k /\ meshes'[s][k] = meshes[s][k]]_vars

\* Side a has consumed three shapes, the first and third sharing a geometry, and
\* built two meshes.
C3_Witness ==
    /\ Len(consumed["a"]) = 3
    /\ \A i \in 1..3 : ~consumed["a"][i].null
    /\ consumed["a"][1].geomid = consumed["a"][3].geomid
    /\ consumed["a"][1].geomid # consumed["a"][2].geomid
    /\ Len(created["a"]) = 2
    /\ cm["a"][1].mesh.oid = cm["a"][3].mesh.oid

\* A matching element (site or building) of the hierarchy lacks its placement.
LacksPlacement(tree) ==
    \E i \in 2..Len(tree) : tree[i].cls \in {"IfcSite", "IfcBuilding"} /\ ~tree[i].pl.placed

Unresolved(contact) ==
    \/ ~Resolves(model["a"], contact.names[1])
    \/ ~Resolves(model["b"], contact.names[2])

InLog(e) == \E i \in 1..Len(log) : log[i] = e

\* C4: a fatal failure (an unreadable file, a normalization target without its
\* placement, a contact label that does not resolve, whatever the contact's
\* depth) aborts the run where it occurs: nothing happens after it, no later
\* contact is processed, export() is not reached and no file is written.
C4_FatalAborts ==
    /\ [](/\ \A s \in Sides :
               /\ (InLog(<<"open", s>>) /\ ~files[s].readable)
                    => pc = "aborted" /\ log[Len(log)] = <<"open", s>>
               /\ (InLog(<<"patch", s>>) /\ LacksPlacement(files[s].tree))
                    => pc = "aborted" /\ log[Len(log)] = <<"patch", s>>
          /\ (results.set /\ pc # "results") =>
               \A j \in 1..Len(results.contacts) :
                   Unresolved(results.contacts[j]) =>
                       /\ ci <= j
                       /\ pc \in {"contacts", "aborted"}
          /\ (pc = "aborted" /\ results.set) => Unresolved(results.contacts[ci])
          /\ pc = "aborted" => ~outfile.written /\ ~InLog(<<"export", "ab">>))
    /\ [][pc # "aborted"]_vars

\* The run aborted at the second contact, whose B label does not resolve and
\* whose depth is below tolerance, after a first contact made a record.
C4_Witness ==
    /\ pc = "aborted"
    /\ abortAt = "by_guid b"
    /\ ci = 2
    /\ ~Passes(results.contacts[2])
    /\ Len(clashes) = 1
    /\ ~outfile.written

\* C5: when initialize() fails for a side, that side gets no object, no mesh and
\* no create_mesh call, nothing is raised, and the run goes on as after a built
\* side: to side b's pipeline, or to the query and the export.
C5_InitFailureIsEmptyScene ==
    \A s \in Sides :
        valid[s] = "false" =>
            /\ cm[s] = <<>>
            /\ meshes[s] = EmptyDict
            /\ created[s] = <<>>
            /\ consumed[s] = <<>>
            /\ SideBuilt(s)
            /\ abortAt # "geom"
            /\ log[Len(log)] = <<"geom", s>> =>
                 pc = (IF s = "a" THEN "open" ELSE "query")

\* A finished run, its file written, in which initialize() failed for side a and
\* succeeded for side b.
C5_Witness ==
    /\ pc = "done"
    /\ valid["a"] = "false"
    /\ valid["b"] = "true"
    /\ cm["b"] # <<>>
    /\ outfile.written

RECURSIVE BuildFrom(_, _, _)
\* The scene state after add_collision_object on each item of items in turn.
BuildFrom(sc, s, items) ==
    IF items = <<>> THEN sc
    ELSE BuildFrom(add_collision_object(sc, s, Head(items)), s, Tail(items))

\* C6: the items of an initialized iterator's stream are consumed once each, in
\* stream order; None items are skipped; and when the side is built its scene
\* holds one object per shape that is not None, labelled with the shape's
\* element, objects and cache being what the stream without its None items
\* gives.
C6_NullShapesSkipped ==
    \A s \in Sides :
        valid[s] = "true" =>
            /\ Len(consumed[s]) <= Len(iter[s].stream)
            /\ consumed[s] = SubSeq(iter[s].stream, 1, Len(consumed[s]))
            /\ pc # "aborted" \/ SideBuilt(s)
            /\ SideBuilt(s) =>
                 LET shapes == NonNull(iter[s].stream)
                     alone == BuildFrom(EmptyScene, s, shapes)
                 IN /\ consumed[s] = iter[s].stream
                    /\ Len(cm[s]) = Len(shapes)
                    /\ \A i \in 1..Len(shapes) : cm[s][i].name = shapes[i].guid
                    /\ cm[s] = alone.objs
                    /\ meshes[s] = alone.meshes
                    /\ created[s] = alone.created

\* Side b is built from a stream with None first and last and a shape between.
C6_Witness ==
    /\ SideBuilt("b")
    /\ valid["b"] = "true"
    /\ Len(iter["b"].stream) = 3
    /\ iter["b"].stream[1].null
    /\ ~iter["b"].stream[2].null
    /\ iter["b"].stream[3].null
    /\ Len(cm["b"]) = 1

\* The stages of a complete run, in order.
StageOrder ==
    <<<<"open", "a">>, <<"patch", "a">>, <<"purge", "a">>, <<"scene", "a">>, <<"geom", "a">>,
      <<"open", "b">>, <<"patch", "b">>, <<"purge", "b">>, <<"scene", "b">>, <<"geom", "b">>,
      <<"query", "ab">>, <<"export", "ab">>>>

\* A side's stream, if it has one, is consumed to its end.
StreamDone(s) ==
    /\ valid[s] # "unset"
    /\ valid[s] = "true" => consumed[s] = iter[s].stream

\* C7: the stages are attempted once each, in the order open, normalize, filter,
\* build for side a, the same for side b, one query, the export: nothing of side
\* b starts before scene a is built, the query is not issued before both scenes
\* are built, and the export does not start before every contact is processed.
C7_StageOrder ==
    /\ Len(log) <= Len(StageOrder)
    /\ log = SubSeq(StageOrder, 1, Len(log))
    /\ pc = "done" => log = StageOrder
    /\ Len(log) >= 6 => StreamDone("a")
    /\ Len(log) >= 11 => StreamDone("a") /\ StreamDone("b")
    /\ Len(log) = 12 => (~results.hit \/ ci = Len(results.contacts) + 1)

\* A finished run with objects in both scenes and two contacts processed.
C7_Witness ==
    /\ pc = "done"
    /\ log = StageOrder
    /\ Len(cm["a"]) >= 2
    /\ Len(cm["b"]) >= 2
    /\ ci = 3

RECURSIVE UnderProject(_, _)
\* Element i lies below the project through the decomposition relation.
UnderProject(tree, i) ==
    /\ i > 1
    /\ \/ tree[i].parent = 1
       \/ UnderProject(tree, tree[i].parent)

\* C9: patch_ifc ends for every hierarchy, and when no site or building lacks
\* its placement it leaves every site and every building below the project, at
\* any depth and in any decomposition relation, with location (0,0,0), axis
\* (0,0,1) where there is an axis and reference direction (1,0,0) where there is
\* one.
C9_EverySiteAndBuildingReset ==
    InLog(<<"patch", "a">>) =>
        LET before == files["a"].tree
            after == model["a"].tree
        IN /\ pc \in {"purge", "aborted"}
           /\ (pc = "aborted") <=> LacksPlacement(before)
           /\ pc = "purge" =>
                /\ Len(after) = Len(before)
                /\ \A i \in 1..Len(before) :
                     (UnderProject(before, i) /\ before[i].cls \in {"IfcSite", "IfcBuilding"}) =>
                        /\ after[i].pl.loc = <<0, 0, 0>>
                        /\ after[i].pl.axis = (IF before[i].pl.axis # <<>> THEN <<0, 0, 1>> ELSE <<>>)
                        /\ after[i].pl.ref = (IF before[i].pl.ref # <<>> THEN <<1, 0, 0>> ELSE <<>>)

\* A normalized hierarchy in which a building lies below a site, in the second
\* decomposition relation of the site, and both are reset.
C9_Witness ==
    /\ pc = "purge"
    /\ LET t == model["a"].tree
       IN \E i, j, k \in 2..Len(t) :
            /\ t[i].cls = "IfcSite"
            /\ t[j].cls = "IfcBuilding" /\ t[j].parent = i /\ t[j].rel = 2
            /\ t[k].parent = i /\ t[k].rel = 1
            /\ t[i].pl.loc = <<0, 0, 0>> /\ t[j].pl.loc = <<0, 0, 0>>
            /\ t[j].pl.axis = <<0, 0, 1>> /\ t[j].pl.ref = <<>>

\* C10: the matrix add_object receives for a shape with transform data m has
\* bottom row [0,0,0,1], last column (m[9], m[10], m[11]) and, in its upper
\* left 3x3 block, entry (r,c) equal to m[3*c + r]: the transpose() call leaves
\* it as built.
C10_TransformLayout ==
    \A s \in Sides :
        LET shapes == NonNull(consumed[s])
        IN /\ Len(cm[s]) = Len(shapes)
           /\ \A i \in 1..Len(shapes) :
                LET m == shapes[i].m
                    mat == cm[s][i].mat
                IN /\ mat[4] = <<0, 0, 0, 1>>
                   /\ \A r \in 0..2 : mat[r + 1][4] = m[9 + r + 1]
                   /\ \A r, c \in 0..2 : mat[r + 1][c + 1] = m[3 * c + r + 1]

\* Scene a holds the object of a shape whose 12 transform entries all differ.
C10_Witness ==
    /\ Len(cm["a"]) = 1
    /\ consumed["a"][1].m = [i \in 1..12 |-> i + 1]
    /\ cm["a"][1].mat[1][2] = 5
    /\ cm["a"][1].mat[2][1] = 3
    /\ cm["a"][1].mat[3][4] = 13

====
